---- MODULE Spec2Model ----
(***************************************************************************)
(* Scripts/ci-host/cleanup.py: the periodic simulator cleanup of the CI    *)
(* host.  One run prunes unavailable simulators, lists the remaining ones, *)
(* captures `now`, and walks the listing: a device whose keepalive file    *)
(* (named by its udid, mtime = lease expiry) has expired, or which has no  *)
(* keepalive file and a dataPath at least an hour old, is handed to        *)
(* `simctl delete` and its logPath is removed.                             *)
(*                                                                         *)
(* The model follows the script statement by statement (pc names the       *)
(* statement about to execute).  The simctl collaborator and the file      *)
(* system are nondeterministic in their outcomes: every subprocess may     *)
(* exit non-zero, os.remove and shutil.rmtree may raise OSError, the       *)
(* listing may be unparsable or lack keys and names the devices in an      *)
(* order of its own, and a data directory may be missing.  Successive runs *)
(* (cron) are modelled by NextRun.                                         *)
(***************************************************************************)
EXTENDS Integers, Sequences, FiniteSets

\* ---------------------------------------------------------------- bounds
MaxDevices == 2
MaxRuns == 2

\* ------------------------------------------------------ program constants
\* cleanup.py:26   now - 3600
Threshold == 3600

Devices == 1..MaxDevices

\* Wall clock at the first run; the clock advances by one second per run.
Clock0 == Threshold + 2

\* Keepalive mtimes (lease expiry instants) the job runners may have left:
\* exactly at and just after the first run's `now`.  A later run finds
\* what an aborted run left behind strictly before its own `now`.
MarkerTimes == {Clock0, Clock0 + 1}

\* The simulator the platform may have flagged unavailable before the first
\* run: the last one of the pool.
Orphan == MaxDevices

\* dataPath mtimes: aged exactly Threshold at the first run, or two seconds
\* short of it (one second short at the second run, Threshold at the third).
DataTimes == {Clock0 - Threshold, Clock0 - Threshold + 2}

\* Keys a device record of `simctl list devices -j` is read for.
RecordKeys == {"udid", "dataPath", "logPath"}

VARIABLES
    clock,          \* time.time() of the host
    run,            \* number of the current run of the script
    pc,             \* statement about to execute, or "done" / "crashed"
    error,          \* the uncaught exception that ended the run, or "none"
    platform,       \* udids simctl knows
    unavailable,    \* udids simctl flags unavailable
    keepalive,      \* udids for which a regular file ./<udid> exists
    keepaliveMtime, \* os.path.getmtime(udid) for those, 0 otherwise
    dataPaths,      \* udids whose dataPath directory exists
    dataMtime,      \* os.path.getmtime(dev["dataPath"]) for those, 0 otherwise
    logs,           \* udids whose logPath exists
    simctl_list,    \* the parsed listing: a sequence of device records
    now,            \* the run's snapshot of the clock
    idx,            \* position of `dev` in the listing
    nuke_it,        \* the loop's flag
    pruned,         \* history: "no", or how simctl delete unavailable ended this run
    listed,         \* history: simctl list was invoked this run
    deleteCalled,   \* history: udids passed to simctl delete this run
    deleteFailed,   \* history: those for which simctl delete exited non-zero
    start,          \* history: the file system as the run found it
    prevFailed,     \* history: deleteFailed of the previous run
    prevStripped    \* history: those of them that run left without keepalive
                    \*          file and logPath, having removed both

vars == <<clock, run, pc, error, platform, unavailable, keepalive,
          keepaliveMtime, dataPaths, dataMtime, logs, simctl_list, now, idx,
          nuke_it, pruned, listed, deleteCalled, deleteFailed, start, prevFailed,
          prevStripped>>

fsVars == <<keepalive, keepaliveMtime, dataPaths, dataMtime, logs>>
histVars == <<pruned, listed, deleteCalled, deleteFailed, start, prevFailed,
              prevStripped>>

\* ------------------------------------------------------------- helpers

\* The file system as a run finds it.
Snapshot(k, m, l) == [keepalive |-> k, keepaliveMtime |-> m, logs |-> l]

\* The orders in which a listing can name the devices of S: simctl groups
\* them by runtime, in an order of its own that may differ from run to run,
\* and names each device once.
ListingOrders(S) ==
    {f \in [1..Cardinality(S) -> S] : \A i, j \in DOMAIN f : f[i] = f[j] => i = j}

\* subprocess.run(..., check=c) raises CalledProcessError iff c and rc # 0.
RunRaises(check, rc) == check /\ rc # 0

\* Variant: the prune call without check=True.
PruneUnchecked == FALSE

\* cleanup.py:11  check=True
PruneCheck == TRUE

\* cleanup.py:13  check=True
ListCheck == TRUE

\* Variant: the per-device delete call with check=True.
DeleteChecked == TRUE

\* cleanup.py:31  no check argument
DeleteCheck == FALSE

\* Variant: the expiry comparison reversed.
LeaseExpiredReversed(mtime, n) == mtime >= n

\* Variant: a lease expiring exactly at `now` counted as active.
LeaseExpiredStrict(mtime, n) == mtime < n

\* cleanup.py:22  os.path.getmtime(udid) <= now
LeaseExpired(mtime, n) == mtime <= n

\* Variant: an age of exactly one hour counted as fresh.
StaleStrict(mtime, n) == mtime < n - Threshold

\* Variant: the hour of grace left out.
StaleNoGrace(mtime, n) == mtime <= n

\* cleanup.py:26  os.path.getmtime(dev["dataPath"]) <= now - 3600
Stale(mtime, n) == mtime <= n - Threshold

\* Variant: the deletion step entered whatever the flag says.
AfterDecisionAlways(nuke) == "delete"

\* Variant: the logPath removed without simctl delete having been called.
AfterDecisionNoDelete(nuke) == IF nuke THEN "exists" ELSE "for"

\* cleanup.py:30  if nuke_it:
AfterDecision(nuke) == IF nuke THEN "delete" ELSE "for"

\* Variant: rmtree called without looking whether logPath exists.
LogPathUnguarded(exists) == TRUE

\* cleanup.py:32  if os.path.exists(dev["logPath"]):
LogPathGuard(exists) == exists

\* The record the loop is at.
dev == simctl_list[idx]

\* An uncaught exception ends the run.
Raise(e) == /\ pc' = "crashed"
            /\ error' = e

\* ------------------------------------------------------------- initial
\* The host before the first run: every simulator of the pool is known to
\* simctl, simulator Orphan may be flagged unavailable, and job runners have
\* left keepalive files, data directories and log directories in any state,
\* any of them possibly missing.
Init ==
    /\ clock = Clock0
    /\ run = 1
    /\ pc = "prune"
    /\ error = "none"
    /\ platform = Devices
    /\ unavailable \in {{}, {Orphan}}
    /\ keepalive \in SUBSET Devices
    /\ keepaliveMtime \in [Devices -> MarkerTimes \cup {0}]
    /\ \A d \in Devices : (d \in keepalive) <=> (keepaliveMtime[d] # 0)
    /\ dataPaths \in SUBSET Devices
    /\ dataMtime \in [Devices -> DataTimes \cup {0}]
    /\ \A d \in Devices : (d \in dataPaths) <=> (dataMtime[d] # 0)
    /\ logs \in SUBSET Devices
    /\ simctl_list = <<>>
    /\ now = 0
    /\ idx = 0
    /\ nuke_it = FALSE
    /\ pruned = "no"
    /\ listed = FALSE
    /\ deleteCalled = {}
    /\ deleteFailed = {}
    /\ start = Snapshot(keepalive, keepaliveMtime, logs)
    /\ prevFailed = {}
    /\ prevStripped = {}

\* ------------------------------------------------------------- the run

\* cleanup.py:11  subprocess.run(["xcrun","simctl","delete","unavailable"], check=True)
Prune ==
    /\ pc = "prune"
    /\ \E rc \in {0, 1} :
        /\ pruned' = IF rc = 0 THEN "ok" ELSE "failed"
        /\ IF rc = 0
           THEN /\ platform' = platform \ unavailable
                /\ unavailable' = {}
           ELSE UNCHANGED <<platform, unavailable>>
        /\ IF RunRaises(PruneCheck, rc)
           THEN Raise("CalledProcessError:prune")
           ELSE /\ pc' = "list"
                /\ UNCHANGED error
    /\ UNCHANGED <<clock, run, fsVars, simctl_list, now, idx, nuke_it,
                   listed, deleteCalled, deleteFailed, start, prevFailed,
                   prevStripped>>

\* What json.loads(...) of the listing's stdout can be, flattened as lines
\* 17-18 walk it (runtime by runtime, device by device): the records of the
\* platform's devices in the order the listing names them, at most one of
\* them lacking one key.
Listing(order, badDev, badKey) ==
    [i \in 1..Len(order) |->
        [udid |-> order[i],
         keys |-> IF order[i] = badDev THEN RecordKeys \ {badKey}
                  ELSE RecordKeys]]

\* cleanup.py:13  simctl_list = json.loads(subprocess.run([... "list",
\*                "devices", "-je"], check=True, stdout=PIPE).stdout)
List ==
    /\ pc = "list"
    /\ listed' = TRUE
    /\ \E rc \in {0, 1} :
        IF RunRaises(ListCheck, rc)
        THEN /\ Raise("CalledProcessError:list")
             /\ UNCHANGED simctl_list
        ELSE \/ \* stdout is not JSON
                /\ Raise("JSONDecodeError")
                /\ UNCHANGED simctl_list
             \/ \* a JSON object without "devices": .get("devices", {})
                /\ rc = 0
                /\ pc' = "now"
                /\ simctl_list' = <<>>
                /\ UNCHANGED error
             \/ \E order \in ListingOrders(platform),
                   badDev \in {0} \cup platform, badKey \in RecordKeys :
                    /\ rc = 0
                    /\ badDev = 0 => badKey = "udid"
                    /\ pc' = "now"
                    /\ simctl_list' = Listing(order, badDev, badKey)
                    /\ UNCHANGED error
    /\ UNCHANGED <<clock, run, platform, unavailable, fsVars, now, idx,
                   nuke_it, pruned, deleteCalled, deleteFailed, start,
                   prevFailed, prevStripped>>

\* cleanup.py:15  now = time.time()
Now ==
    /\ pc = "now"
    /\ now' = clock
    /\ idx' = 0
    /\ pc' = "for"
    /\ UNCHANGED <<clock, run, error, platform, unavailable, fsVars,
                   simctl_list, nuke_it, histVars>>

\* cleanup.py:17-20  the loops' next record; udid = dev["udid"]; nuke_it = False
For ==
    /\ pc = "for"
    /\ IF idx = Len(simctl_list)
       THEN /\ pc' = "done"
            /\ UNCHANGED <<idx, nuke_it, error>>
       ELSE /\ idx' = idx + 1
            /\ IF "udid" \in simctl_list[idx + 1].keys
               THEN /\ nuke_it' = FALSE
                    /\ pc' = "isfile"
                    /\ UNCHANGED error
               ELSE /\ Raise("KeyError:udid")
                    /\ UNCHANGED nuke_it
    /\ UNCHANGED <<clock, run, platform, unavailable, fsVars, simctl_list,
                   now, histVars>>

\* cleanup.py:21  if os.path.isfile(udid):  ...  elif
IsFile ==
    /\ pc = "isfile"
    /\ pc' = IF dev.udid \in keepalive THEN "getmtime" ELSE "datapath"
    /\ UNCHANGED <<clock, run, error, platform, unavailable, fsVars,
                   simctl_list, now, idx, nuke_it, histVars>>

\* cleanup.py:22-23,25  if os.path.getmtime(udid) <= now: nuke_it = True
GetMtime ==
    /\ pc = "getmtime"
    /\ IF dev.udid \notin keepalive
       THEN /\ Raise("FileNotFoundError:keepalive")
            /\ UNCHANGED nuke_it
       ELSE /\ nuke_it' = LeaseExpired(keepaliveMtime[dev.udid], now)
            /\ pc' = IF nuke_it' THEN "remove" ELSE AfterDecision(nuke_it')
            /\ UNCHANGED error
    /\ UNCHANGED <<clock, run, platform, unavailable, fsVars, simctl_list,
                   now, idx, histVars>>

\* cleanup.py:24  os.remove(udid)
Remove ==
    /\ pc = "remove"
    /\ IF dev.udid \notin keepalive
       THEN /\ Raise("FileNotFoundError:keepalive")
            /\ UNCHANGED <<keepalive, keepaliveMtime>>
       ELSE \/ /\ keepalive' = keepalive \ {dev.udid}
               /\ keepaliveMtime' = [keepaliveMtime EXCEPT ![dev.udid] = 0]
               /\ pc' = AfterDecision(nuke_it)
               /\ UNCHANGED error
            \/ /\ Raise("OSError:remove")
               /\ UNCHANGED <<keepalive, keepaliveMtime>>
    /\ UNCHANGED <<clock, run, platform, unavailable, dataPaths, dataMtime,
                   logs, simctl_list, now, idx, nuke_it, histVars>>

\* cleanup.py:26-28  elif os.path.getmtime(dev["dataPath"]) <= now - 3600:
\* dev["dataPath"] raises KeyError; os.path.getmtime of a directory that
\* does not exist raises FileNotFoundError.
DataPath ==
    /\ pc = "datapath"
    /\ IF "dataPath" \notin dev.keys
       THEN /\ Raise("KeyError:dataPath")
            /\ UNCHANGED nuke_it
       ELSE IF dev.udid \notin dataPaths
       THEN /\ Raise("FileNotFoundError:dataPath")
            /\ UNCHANGED nuke_it
       ELSE /\ nuke_it' = Stale(dataMtime[dev.udid], now)
            /\ pc' = AfterDecision(nuke_it')
            /\ UNCHANGED error
    /\ UNCHANGED <<clock, run, platform, unavailable, fsVars, simctl_list,
                   now, idx, histVars>>

\* cleanup.py:31  subprocess.run(["xcrun", "simctl", "delete", udid])
Delete ==
    /\ pc = "delete"
    /\ deleteCalled' = deleteCalled \cup {dev.udid}
    /\ \E rc \in {0, 1} :
        /\ dev.udid \notin platform => rc # 0
        /\ IF rc = 0
           THEN /\ platform' = platform \ {dev.udid}
                /\ UNCHANGED deleteFailed
           ELSE /\ deleteFailed' = deleteFailed \cup {dev.udid}
                /\ UNCHANGED platform
        /\ IF RunRaises(DeleteCheck, rc)
           THEN Raise("CalledProcessError:delete")
           ELSE /\ pc' = "exists"
                /\ UNCHANGED error
    /\ UNCHANGED <<clock, run, unavailable, fsVars, simctl_list, now, idx,
                   nuke_it, pruned, listed, start, prevFailed,
                   prevStripped>>

\* cleanup.py:32  if os.path.exists(dev["logPath"]):
Exists ==
    /\ pc = "exists"
    /\ IF "logPath" \notin dev.keys
       THEN Raise("KeyError:logPath")
       ELSE /\ pc' = IF LogPathGuard(dev.udid \in logs) THEN "rmtree" ELSE "for"
            /\ UNCHANGED error
    /\ UNCHANGED <<clock, run, platform, unavailable, fsVars, simctl_list,
                   now, idx, nuke_it, histVars>>

\* cleanup.py:33  shutil.rmtree(dev["logPath"])
Rmtree ==
    /\ pc = "rmtree"
    /\ IF dev.udid \notin logs
       THEN /\ Raise("FileNotFoundError:logPath")
            /\ UNCHANGED logs
       ELSE \/ /\ logs' = logs \ {dev.udid}
               /\ pc' = "for"
               /\ UNCHANGED error
            \/ /\ Raise("OSError:rmtree")
               /\ UNCHANGED logs
    /\ UNCHANGED <<clock, run, platform, unavailable, keepalive,
                   keepaliveMtime, dataPaths, dataMtime, simctl_list, now, idx,
                   nuke_it, histVars>>

\* The scheduler starts the script again after the previous run has ended,
\* normally or with a traceback (cleanup.py:9-15 of the next process).
NextRun ==
    /\ pc \in {"done", "crashed"}
    /\ run < MaxRuns
    /\ run' = run + 1
    /\ clock' = clock + 1
    /\ pc' = "prune"
    /\ error' = "none"
    /\ simctl_list' = <<>>
    /\ now' = 0
    /\ idx' = 0
    /\ nuke_it' = FALSE
    /\ pruned' = "no"
    /\ listed' = FALSE
    /\ deleteCalled' = {}
    /\ deleteFailed' = {}
    /\ start' = Snapshot(keepalive, keepaliveMtime, logs)
    /\ prevFailed' = deleteFailed
    /\ prevStripped' = {d \in deleteFailed :
                            /\ d \in start.keepalive \ keepalive
                            /\ d \in start.logs \ logs}
    /\ UNCHANGED <<platform, unavailable, fsVars>>

Next ==
    \/ Prune
    \/ List
    \/ Now
    \/ For
    \/ IsFile
    \/ GetMtime
    \/ Remove
    \/ DataPath
    \/ Delete
    \/ Exists
    \/ Rmtree
    \/ NextRun

Spec == Init /\ [][Next]_vars

\* ------------------------------------------------ the loop as a function

\* The outcome of the loop body (cleanup.py:19-33) for one record, added to
\* the outcome `o` of the records before it.  `fs` is the file system the
\* loop finds (keepalive, keepaliveMtime, logs), `n` the run's `now`, and
\* `faults` names the udids for which os.remove and shutil.rmtree raise.
\* A failing simctl delete raises nothing (DeleteCheck) and changes none of
\* the three sets.  Every udid is listed once, so the body finds the files
\* of its device as the loop found them; the data directories are those of
\* the host, which the script never changes.
Body(rec, o, fs, n, faults) ==
    LET d == rec.udid
        crash == [o EXCEPT !.crashed = TRUE]
        leased == d \in fs.keepalive
        nuke == IF leased THEN LeaseExpired(fs.keepaliveMtime[d], n)
                ELSE Stale(dataMtime[d], n)
        afterRemove == [o EXCEPT !.unmarked = @ \cup {d}]
        decided == IF leased /\ nuke THEN afterRemove ELSE o
        called == [decided EXCEPT !.called = @ \cup {d}]
    IN  IF o.crashed THEN o
        ELSE IF "udid" \notin rec.keys THEN crash
        ELSE IF ~leased /\ "dataPath" \notin rec.keys THEN crash
        ELSE IF ~leased /\ d \notin dataPaths THEN crash
        ELSE IF leased /\ nuke /\ d \in faults.remove THEN crash
        ELSE IF AfterDecision(nuke) # "delete" THEN decided
        ELSE IF "logPath" \notin rec.keys
             THEN [called EXCEPT !.crashed = TRUE]
        ELSE IF ~LogPathGuard(d \in fs.logs) THEN called
        ELSE IF d \in faults.rmtree
             THEN [called EXCEPT !.crashed = TRUE]
        ELSE [called EXCEPT !.unlogged = @ \cup {d}]

RECURSIVE Loop(_, _, _, _, _)
\* cleanup.py:17-18  the records of the listing in the order enumerated.
Loop(recs, o, fs, n, faults) ==
    IF recs = <<>> THEN o
    ELSE Loop(Tail(recs), Body(Head(recs), o, fs, n, faults), fs, n, faults)

\* What a run does to a listing: the udids passed to simctl delete, the
\* keepalive files removed and the logPaths removed.
Outcome(recs, fs, n, faults) ==
    LET o == Loop(recs, [called |-> {}, unmarked |-> {}, unlogged |-> {},
                         crashed |-> FALSE], fs, n, faults)
    IN <<o.called, o.unmarked, o.unlogged>>

\* ---------------------------------------------------------- job runners

\* A job runner takes or refreshes the lease of a simulator it uses while a
\* run of the script is under way: it touches ./<udid> with an expiry after
\* the present time (spec section 3, lease lifecycle).  The script itself
\* has no lock against this (cleanup.py:21-31).
Touch ==
    /\ pc \notin {"prune", "done", "crashed"}
    /\ \E d \in platform :
        /\ keepalive' = keepalive \cup {d}
        /\ keepaliveMtime' = [keepaliveMtime EXCEPT ![d] = clock + 1]
    /\ UNCHANGED <<clock, run, pc, error, platform, unavailable, dataPaths,
                   dataMtime, logs, simctl_list, now, idx, nuke_it, histVars>>

NextRunners ==
    \/ Next
    \/ Touch

SpecRunners == Init /\ [][NextRunners]_vars

\* ---------------------------------------------------------- repeated runs

\* The instant at which the youngest dataPath is an hour old.  Every
\* keepalive file has expired by then, so no comparison of lines 22 and 26
\* changes its result after it; the clock of the repeated runs stops there.
LastClock == Threshold + (CHOOSE t \in DataTimes : \A u \in DataTimes : u <= t)

\* The scheduler starts the script again, without end (cleanup.py:9-15 of
\* the next process).  As NextRun, with the run counter stopping at MaxRuns
\* and the clock at LastClock.
Rerun ==
    /\ pc \in {"done", "crashed"}
    /\ run' = IF run < MaxRuns THEN run + 1 ELSE run
    /\ clock' = IF clock < LastClock THEN clock + 1 ELSE clock
    /\ pc' = "prune"
    /\ error' = "none"
    /\ simctl_list' = <<>>
    /\ now' = 0
    /\ idx' = 0
    /\ nuke_it' = FALSE
    /\ pruned' = "no"
    /\ listed' = FALSE
    /\ deleteCalled' = {}
    /\ deleteFailed' = {}
    /\ start' = Snapshot(keepalive, keepaliveMtime, logs)
    /\ prevFailed' = deleteFailed
    /\ prevStripped' = {d \in deleteFailed :
                            /\ d \in start.keepalive \ keepalive
                            /\ d \in start.logs \ logs}
    /\ UNCHANGED <<platform, unavailable, fsVars>>

NextRetry ==
    \/ Prune
    \/ List
    \/ Now
    \/ For
    \/ IsFile
    \/ GetMtime
    \/ Remove
    \/ DataPath
    \/ Delete
    \/ Exists
    \/ Rmtree
    \/ Rerun

\* cleanup.py:31 exiting zero for device d.
DeleteSucceeds(d) == Delete /\ dev.udid = d /\ d \notin platform'

\* The script and the scheduler keep going, and simctl delete does not fail
\* for ever for a device it keeps being invoked for.
RetryFairness ==
    /\ WF_vars(NextRetry)
    /\ \A d \in Devices : SF_vars(DeleteSucceeds(d))

SpecRetry == Init /\ [][NextRetry]_vars /\ RetryFairness

\* ------------------------------------------------- what the process reports

\* The exit status of the python process: 1 after an uncaught exception
\* (traceback), 0 when the script runs off its end (cleanup.py:33).
ExitStatus == IF error = "none" THEN 0 ELSE 1

\* The per-device failures the script itself reports when it ends.  The
\* CompletedProcess of line 31 is discarded and nothing is printed, so the
\* only failure that surfaces is the traceback of the exception that ended
\* the run at the device the loop was at.
Reported ==
    IF error \in {"OSError:rmtree", "OSError:remove"} THEN {dev.udid} ELSE {}

\* =====================================================================
\* Properties
\* =====================================================================

\* The udid of the i-th listed record.
Udid(i) == simctl_list[i].udid

Listed == {Udid(i) : i \in 1..Len(simctl_list)}

\* The loop has finished with the i-th record of the listing.
Processed(i) == \/ i < idx
                \/ i = idx /\ pc \in {"for", "done"}

\* The lease states of spec section 4.1, on the file system the run found.
Active(d) == d \in start.keepalive /\ start.keepaliveMtime[d] > now
Expired(d) == d \in start.keepalive /\ start.keepaliveMtime[d] <= now
Absent(d) == d \notin start.keepalive

\* Age of an existing dataPath relative to the run's `now`.
Age(d) == now - dataMtime[d]

\* No keepalive file and a dataPath at least an hour old.
StaleUnleased(d) == Absent(d) /\ d \in dataPaths /\ Age(d) >= Threshold

\* No keepalive file and a dataPath less than an hour old.
FreshUnleased(d) == Absent(d) /\ d \in dataPaths /\ Age(d) < Threshold

\* Eligible for reclamation by the policy of spec section 4.2.
Eligible(d) == Expired(d) \/ StaleUnleased(d)

LogKept(d) == d \in start.logs => d \in logs
MarkerKept(d) == /\ d \in keepalive
                 /\ keepaliveMtime[d] = start.keepaliveMtime[d]

\* C1: a device whose keepalive file has an mtime strictly after the run's
\* `now` is never passed to simctl delete in that run, its logPath is not
\* removed and its keepalive file stays as it was, whatever the age of its
\* dataPath.  (Before line 15 has captured `now` the run has touched nothing
\* at all.)
C1_ActiveLeaseProtects ==
    \A d \in Devices :
        Active(d) => /\ d \notin deleteCalled
                     /\ LogKept(d)
                     /\ MarkerKept(d)

\* A completed run that listed a leased device with an hour-old dataPath
\* and an existing logPath.
C1_Witness ==
    /\ pc = "done"
    /\ \E d \in Listed : /\ Active(d)
                         /\ d \in dataPaths
                         /\ Age(d) >= Threshold
                         /\ d \in start.logs

\* C2: once the loop is through a listed device whose keepalive file had an
\* mtime at or before `now` (equality included), simctl delete has been
\* invoked for the device and the keepalive file is gone, whatever the age
\* of the dataPath.
C2_ExpiredLeaseReclaimed ==
    \A i \in 1..Len(simctl_list) :
        (Processed(i) /\ Expired(Udid(i)))
            => /\ Udid(i) \in deleteCalled
               /\ Udid(i) \notin keepalive

\* A completed run that reclaimed a device whose lease expired exactly at
\* `now` and whose dataPath is younger than an hour.
C2_Witness ==
    /\ pc = "done"
    /\ \E d \in Listed : /\ d \in start.keepalive
                         /\ start.keepaliveMtime[d] = now
                         /\ d \in dataPaths
                         /\ Age(d) < Threshold
                         /\ d \in deleteCalled
                         /\ d \notin keepalive

\* C3: once the loop is through a listed device that had no keepalive file
\* and whose dataPath age is at least 3600 seconds (exactly 3600 included),
\* simctl delete has been invoked for it.
C3_StaleUnleasedReclaimed ==
    \A i \in 1..Len(simctl_list) :
        (Processed(i) /\ StaleUnleased(Udid(i))) => Udid(i) \in deleteCalled

\* A completed run that reclaimed an unleased device aged exactly 3600 s.
C3_Witness ==
    /\ pc = "done"
    /\ \E d \in Listed : /\ StaleUnleased(d)
                         /\ Age(d) = Threshold
                         /\ d \in deleteCalled

\* C4: a device without keepalive file whose dataPath is younger than 3600
\* seconds is never passed to simctl delete in that run and keeps its
\* logPath.
C4_FreshUnleasedKept ==
    \A d \in Devices :
        FreshUnleased(d)
            => /\ d \notin deleteCalled
               /\ LogKept(d)

\* A completed run that listed an unleased device one second short of the
\* hour, with an existing logPath.
C4_Witness ==
    /\ pc = "done"
    /\ \E d \in Listed : /\ FreshUnleased(d)
                         /\ Age(d) = Threshold - 1
                         /\ d \in start.logs

\* C5: a failing simctl delete never ends the run, and every eligible
\* device the loop has got through after a device whose simctl delete
\* failed has had simctl delete invoked for it.
C5_DeleteFailureNotFatal ==
    /\ error # "CalledProcessError:delete"
    /\ \A i, j \in 1..Len(simctl_list) :
        (i < j /\ Udid(i) \in deleteFailed /\ Processed(j) /\ Eligible(Udid(j)))
            => Udid(j) \in deleteCalled

\* A completed run in which simctl delete failed for one device and was
\* still invoked for a later one.
C5_Witness ==
    /\ pc = "done"
    /\ \E i, j \in 1..Len(simctl_list) :
        /\ i < j
        /\ Udid(i) \in deleteFailed
        /\ Udid(j) \in deleteCalled

\* Eligible devices the loop has not reached when the run ends at idx.
Remaining == {Udid(j) : j \in (idx + 1)..Len(simctl_list)}

\* C6 (as claimed): when shutil.rmtree of a marked device's logPath fails,
\* the run goes on and simctl delete is still invoked for every eligible
\* device that follows in the listing.
C6_RmtreeFailureNotFatal ==
    (pc = "crashed" /\ error = "OSError:rmtree")
        => \A d \in Remaining : Eligible(d) => d \in deleteCalled

\* C7 (as claimed): when os.remove of an expired keepalive file fails, the
\* run goes on: simctl delete is invoked for the device the file guarded
\* and for every eligible device that follows in the listing.
C7_MarkerRemovalFailureNotFatal ==
    (pc = "crashed" /\ error = "OSError:remove")
        => /\ dev.udid \in deleteCalled
           /\ \A d \in Remaining : Eligible(d) => d \in deleteCalled

\* C8: no run, a first one or one that finds what an earlier run left
\* behind, ends on a keepalive file or a logPath that is not there: the
\* isfile test guards getmtime and os.remove, the exists test guards
\* rmtree, and a device without logPath passes the deletion step with the
\* logPath still absent.
C8_AbsentResourcesNeverRaise ==
    /\ error \notin {"FileNotFoundError:keepalive", "FileNotFoundError:logPath"}
    /\ \A i \in 1..Len(simctl_list) :
        (Processed(i) /\ Udid(i) \in deleteCalled /\ Udid(i) \notin start.logs)
            => Udid(i) \notin logs

\* A second run that completed after marking again a device whose simctl
\* delete had failed in the first run, which had removed the device's
\* keepalive file and logPath.
C8_Witness ==
    /\ run = 2
    /\ pc = "done"
    /\ \E d \in prevStripped : /\ d \in Listed
                               /\ d \in deleteCalled
                               /\ d \notin start.keepalive
                               /\ d \notin start.logs

\* The listing failed or was not the structure the loop reads.
ListingMalformed ==
    \/ error \in {"CalledProcessError:list", "JSONDecodeError"}
    \/ \E i \in 1..Len(simctl_list) : simctl_list[i].keys # RecordKeys

\* The run has changed nothing: no simctl delete, every keepalive file and
\* logPath as found.
NothingReclaimed ==
    /\ deleteCalled = {}
    /\ keepalive = start.keepalive
    /\ keepaliveMtime = start.keepaliveMtime
    /\ logs = start.logs

\* C9 (as claimed): a run whose listing failed or was malformed (a record
\* lacking udid, dataPath or logPath included) ends with an error and has
\* deleted no device, removed no keepalive file and no logPath.
C9_MalformedListingFatal ==
    (pc \in {"done", "crashed"} /\ ListingMalformed)
        => /\ pc = "crashed"
           /\ NothingReclaimed

\* C10: simctl list is invoked only after simctl delete unavailable has
\* been invoked and has succeeded; a failed prune ends the run at once,
\* with no listing, no simctl delete, no keepalive file and no logPath
\* removed.
C10_PruneFirstAndFatal ==
    /\ listed => pruned = "ok"
    /\ pc \notin {"prune", "list"} /\ error # "CalledProcessError:prune" => listed
    /\ pruned = "failed" => /\ pc = "crashed"
                            /\ error = "CalledProcessError:prune"
                            /\ ~listed
                            /\ simctl_list = <<>>
                            /\ NothingReclaimed

\* A run ended by a failed prune although an unleased device with an
\* hour-old dataPath was there to be reclaimed.
C10_Witness ==
    /\ pc = "crashed"
    /\ pruned = "failed"
    /\ \E d \in platform : /\ Absent(d)
                           /\ d \in dataPaths
                           /\ clock - dataMtime[d] >= Threshold

\* The run has ended, normally or with a traceback.
Ended == pc \in {"done", "crashed"}

\* The failures that spec section 7 makes fatal: the collaborator cannot be
\* invoked or fails to prune, and the listing fails or is malformed.
FatalError ==
    error \in {"CalledProcessError:prune", "CalledProcessError:list",
               "JSONDecodeError", "KeyError:udid", "KeyError:dataPath",
               "KeyError:logPath"}

\* C11 (as claimed): every per-device failure of a run, a failed simctl
\* delete or a failed rmtree of a logPath, is in what the run reports when
\* it ends, and none is raised at its first occurrence.  (Stated for the
\* runs that no fatal error ended.)
C11_FailuresCollectedAndReported ==
    (Ended /\ ~FatalError) => /\ deleteFailed \subseteq Reported
                              /\ error # "OSError:rmtree"

\* C12 (as claimed): a run ends with a non-zero exit status when prune or
\* the listing failed, and with exit status zero when nothing failed or
\* only simctl delete calls or logPath removals did.
C12_ExitStatus ==
    Ended => /\ FatalError => ExitStatus # 0
             /\ error \in {"none", "OSError:rmtree"} => ExitStatus = 0

\* C14: shutil.rmtree of a logPath is reached only after simctl delete has
\* been invoked for that device, every marked device the loop is through
\* has had simctl delete invoked, and when the run completes no device
\* simctl delete was invoked for still has its logPath.
C14_DeleteThenLogRemoved ==
    /\ pc \in {"exists", "rmtree"} => dev.udid \in deleteCalled
    /\ (start.logs \ logs) \subseteq deleteCalled
    /\ \A i \in 1..Len(simctl_list) :
        (Processed(i) /\ Eligible(Udid(i))) => Udid(i) \in deleteCalled
    /\ pc = "done" => deleteCalled \cap logs = {}

\* A completed run that invoked simctl delete for a device and removed the
\* logPath the device had.
C14_Witness ==
    /\ pc = "done"
    /\ \E d \in deleteCalled : d \in start.logs \ logs

\* The keepalive files and logPaths a step removes.
MarkersRemovedByStep == keepalive \ keepalive'
LogsRemovedByStep == logs \ logs'

\* C15: within a run no step creates a keepalive file or changes the mtime
\* of one that stays, no step changes a dataPath, and a step removes a
\* keepalive file or a logPath only of the device the loop is at and only
\* with nuke_it set; the files of every other device stay as they are.
C15_Frame ==
    [][run' = run =>
        /\ keepalive' \subseteq keepalive
        /\ logs' \subseteq logs
        /\ dataPaths' = dataPaths
        /\ dataMtime' = dataMtime
        /\ \A d \in keepalive' : keepaliveMtime'[d] = keepaliveMtime[d]
        /\ \A d \in MarkersRemovedByStep \cup LogsRemovedByStep :
            /\ idx \in 1..Len(simctl_list)
            /\ d = Udid(idx)
            /\ nuke_it]_vars

\* A completed run that removed the keepalive file and the logPath of one
\* device while another listed device kept its own.
C15_Witness ==
    /\ pc = "done"
    /\ \E d, e \in Listed :
        /\ d # e
        /\ d \in start.keepalive \ keepalive
        /\ d \in start.logs \ logs
        /\ e \in keepalive
        /\ e \in logs

\* The device has a keepalive file whose expiry is after the run's `now`.
LeasedNow(d) == d \in keepalive /\ keepaliveMtime[d] > now

\* C16 (as claimed): with job runners touching keepalive files while the
\* run is under way, simctl delete is never invoked for a device that has,
\* at that moment, a keepalive file expiring after `now`, and the run never
\* removes a keepalive file expiring after `now`.
C16_NoReclaimUnderLiveLease ==
    [][/\ \A d \in deleteCalled' \ deleteCalled : ~LeasedNow(d)
       /\ \A d \in keepalive \ keepalive' : ~LeasedNow(d)]_vars

\* The keepalive file of d expired at or before the run's `now`.
StaleMarker(d) == d \in keepalive /\ keepaliveMtime[d] <= now

\* C17 (as claimed): after a run that completed without error no keepalive
\* file with an expiry at or before the run's `now` is left, whether or not
\* the listing had a device of that name.
C17_NoStaleMarkerAnywhere ==
    pc = "done" => \A d \in Devices : ~StaleMarker(d)

\* C17 (amended): after a run that completed without error no device of
\* the run's listing has a keepalive file with an expiry at or before the
\* run's `now`.
C17_NoStaleMarkerOfListed ==
    pc = "done" => \A d \in Listed : ~StaleMarker(d)

\* A completed run that found the expired keepalive file of a listed device
\* and removed it.
C17_Witness ==
    /\ pc = "done"
    /\ \E d \in Listed : Expired(d) /\ d \notin keepalive

\* First half of C18 as claimed: a device whose simctl delete failed in the
\* previous run, with no keepalive file created since and its dataPath
\* untouched, is marked again by the run that follows.
C18_RetriedNextRun ==
    \A i \in 1..Len(simctl_list) :
        (Processed(i) /\ Udid(i) \in prevFailed) => Udid(i) \in deleteCalled

\* First half of C18 as amended: such a device has no keepalive file left,
\* and the run that follows marks it again exactly when its dataPath age has
\* reached 3600 seconds by then.
C18_RetriedWhenStale ==
    \A i \in 1..Len(simctl_list) :
        (Processed(i) /\ Udid(i) \in prevFailed)
            => /\ Absent(Udid(i))
               /\ Udid(i) \in dataPaths
               /\ Udid(i) \in deleteCalled <=> Age(Udid(i)) >= Threshold

\* The run lists every device simctl knows and has not ended with a
\* traceback.
RunsGetThrough ==
    /\ pc # "crashed"
    /\ pc \notin {"prune", "list"} => platform \subseteq Listed

\* Every device simctl delete was once invoked for is eventually gone from
\* the platform.
EventuallyDeleted ==
    \A d \in Devices : (d \in deleteCalled) ~> (d \notin platform)

Orders(recs) ==
    LET n == Len(recs)
        Bijections == {f \in [1..n -> 1..n] : \A i, j \in 1..n :
                                                f[i] = f[j] => i = j}
    IN {[i \in 1..n |-> recs[f[i]]] : f \in Bijections}

\* Which os.remove and shutil.rmtree calls fail, fixed per device.
FaultChoices == [remove : SUBSET Listed, rmtree : SUBSET Listed]

\* The faults a run has met.
FaultsMet ==
    [remove |-> IF error = "OSError:remove" THEN {dev.udid} ELSE {},
     rmtree |-> IF error = "OSError:rmtree" THEN {dev.udid} ELSE {}]

\* The function agrees with the steps: when a run has ended after listing,
\* what it did is Outcome of its listing under the faults it met.
LoopAgreesWithRun ==
    (Ended /\ now # 0)
        => Outcome(simctl_list, start, now, FaultsMet)
             = <<deleteCalled, start.keepalive \ keepalive, start.logs \ logs>>

\* C13 (as claimed): for the listing, file system and `now` a run starts
\* its loop with, and for any fixed choice of the per-device failures, the
\* udids passed to simctl delete, the keepalive files removed and the
\* logPaths removed are the same for every order of enumeration.  (Stated
\* for listings whose records have all their keys.)
C13_OrderInsensitive ==
    (pc = "for" /\ idx = 0 /\ \A i \in 1..Len(simctl_list) :
                                simctl_list[i].keys = RecordKeys)
        => \A faults \in FaultChoices : \A recs \in Orders(simctl_list) :
              Outcome(recs, start, now, faults)
                = Outcome(simctl_list, start, now, faults)

====
